---- MODULE Spec2Model ----
(***************************************************************************)
(* A model of the translator test runner of zotero/translate:              *)
(*   testTranslators/test.mjs        the Test case, sanitizeItem, deepEqual *)
(*   testTranslators/diff.mjs        the structural diff                    *)
(*   TranslatorTester (translatorTester.mjs, src/unnamed/part_000)          *)
(*                                   run, _translateWeb,                    *)
(*                                   _translateImportOrSearch and the HTTP  *)
(*                                   web translation environment            *)
(***************************************************************************)
EXTENDS Integers, Sequences, FiniteSets, TLC

(***************************************************************************)
(* JavaScript values.  Every value is a record [k, v]: k is the kind, v    *)
(* the payload.  An object is the sequence of its own enumerable           *)
(* properties <<key, value>> in insertion order (the order for-in visits   *)
(* them in); an array is the sequence of its elements, with the keys       *)
(* "0", "1", ...  Object keys of the model are never array indices nor     *)
(* "length".  NaN and cyclic objects are not in the universe; a function   *)
(* is there only as the callback a select handler is given.                *)
(***************************************************************************)
Undef == [k |-> "undefined", v |-> 0]
Null == [k |-> "null", v |-> 0]
Bool(b) == [k |-> "boolean", v |-> b]
Num(n) == [k |-> "number", v |-> n]
Str(s) == [k |-> "string", v |-> s]
Obj(ps) == [k |-> "object", v |-> ps]
Arr(xs) == [k |-> "array", v |-> xs]
Fn(name) == [k |-> "function", v |-> name]

\* typeof x
TypeOf(x) ==
    IF x.k \in {"object", "array", "null"} THEN "object" ELSE x.k

\* Array.isArray(x)
IsArray(x) == x.k = "array"

\* ToBoolean(x): the values `if (x)` and `!x` treat as true
Truthy(x) ==
    CASE x.k = "undefined" -> FALSE
      [] x.k = "null" -> FALSE
      [] x.k = "boolean" -> x.v
      [] x.k = "number" -> x.v # 0
      [] x.k = "string" -> x.v # ""
      [] OTHER -> TRUE

\* x ?? y
Nullish(x) == x.k \in {"undefined", "null"}
Coalesce(x, y) == IF Nullish(x) THEN y ELSE x

\* a === b.  Two objects are the same only when they are one object; the
\* model never compares an object with itself through ===.
StrictEq(a, b) == a.k \notin {"object", "array"} /\ a = b

\* The key of array index i (0-based)
IdxKey(i) == ToString(i)

\* The own enumerable keys of x in for-in order
Keys(x) ==
    CASE x.k = "object" -> [i \in 1..Len(x.v) |-> x.v[i][1]]
      [] x.k = "array" -> [i \in 1..Len(x.v) |-> IdxKey(i - 1)]
      [] x.k = "string" -> [i \in 1..Len(x.v) |-> IdxKey(i - 1)]
      [] OTHER -> <<>>

HasKey(ps, key) == \E i \in 1..Len(ps) : ps[i][1] = key
Lookup(ps, key) ==
    IF HasKey(ps, key)
    THEN ps[CHOOSE i \in 1..Len(ps) : ps[i][1] = key][2]
    ELSE Undef
DeleteKey(ps, key) == SelectSeq(ps, LAMBDA p : p[1] # key)
SetKey(ps, key, val) ==
    IF HasKey(ps, key)
    THEN [i \in 1..Len(ps) |-> IF ps[i][1] = key THEN <<key, val>> ELSE ps[i]]
    ELSE Append(ps, <<key, val>>)

\* x.hasOwnProperty(key), for x neither undefined nor null (there the call
\* is a TypeError, see CanHaveProps)
HasOwn(x, key) ==
    CASE x.k = "object" -> HasKey(x.v, key)
      [] x.k \in {"array", "string"} ->
            \E i \in 1..Len(x.v) : IdxKey(i - 1) = key
      [] OTHER -> FALSE

\* Whether x.p can be evaluated at all: undefined.p and null.p throw
CanHaveProps(x) == ~Nullish(x)

\* x[key] for an own key
Get(x, key) ==
    CASE x.k = "object" -> Lookup(x.v, key)
      [] x.k = "array" ->
            IF \E i \in 1..Len(x.v) : IdxKey(i - 1) = key
            THEN x.v[CHOOSE i \in 1..Len(x.v) : IdxKey(i - 1) = key]
            ELSE Undef
      [] OTHER -> Undef

\* x.length
LengthOf(x) ==
    CASE x.k \in {"array", "string"} -> Num(Len(x.v))
      [] x.k = "object" -> Lookup(x.v, "length")
      [] OTHER -> Undef

(***************************************************************************)
(* Collaborators that live outside src/: Zotero.Utilities.trimInternal, the *)
(* item type and item field registry (Zotero.ItemTypes, Zotero.ItemFields)  *)
(* and Zotero.Translate.Base.prototype._cleanTags.                          *)
(***************************************************************************)
\* Zotero.Utilities.trimInternal(s): runs of whitespace collapse to one
\* space, then the ends are trimmed; over the strings of the model
trimInternal(s) ==
    CASE s = " A" -> "A"
      [] s = "A " -> "A"
      [] s = "A  B" -> "A B"
      [] s = " " -> ""
      [] OTHER -> s

\* Zotero.ItemTypes.getID(name): 0 stands for false (no such type)
ItemTypeID(name) ==
    CASE name = Str("book") -> 1
      [] name = Str("bookSection") -> 2
      [] name = Str("journalArticle") -> 3
      [] OTHER -> 0

\* Zotero.ItemFields.getID(field): 0 stands for false (no such field)
FieldID(field) ==
    CASE field = "title" -> 1
      [] field = "publicationTitle" -> 2
      [] field = "bookTitle" -> 3
      [] field = "accessDate" -> 4
      [] field = "url" -> 5
      [] OTHER -> 0

\* Zotero.ItemFields.getName(fieldID)
FieldName(fieldID) ==
    CASE fieldID = 1 -> "title"
      [] fieldID = 2 -> "publicationTitle"
      [] fieldID = 3 -> "bookTitle"
      [] fieldID = 4 -> "accessDate"
      [] fieldID = 5 -> "url"
      [] OTHER -> "undefined"

\* Zotero.ItemFields.isValidForType(fieldID, typeID)
IsValidForType(fieldID, typeID) ==
    \/ fieldID \in {1, 4, 5} /\ typeID \in {1, 2, 3}
    \/ fieldID = 2 /\ typeID = 3
    \/ fieldID = 3 /\ typeID = 2

\* Zotero.ItemFields.getFieldIDFromTypeAndBase(typeID, fieldID): the field of
\* the type that stands for the base field, 0 (false) when it has none
GetFieldIDFromTypeAndBase(typeID, fieldID) ==
    CASE fieldID = 2 /\ typeID = 2 -> 3
      [] fieldID = 2 /\ typeID = 3 -> 2
      [] fieldID \in {1, 4, 5} /\ typeID \in {1, 2, 3} -> fieldID
      [] OTHER -> 0

\* The order of the tag texts of the model under <
TagRank(tag) ==
    CASE tag = Str("a") -> 1
      [] tag = Str("b") -> 2
      [] tag = Str("c") -> 3
      [] OTHER -> 0

\* _cleanTags(tags): a string tag becomes {tag: string}, empty tags go
CleanTag(tag) == IF tag.k = "string" THEN Obj(<< <<"tag", tag>> >>) ELSE tag
cleanTags(tags) ==
    LET kept == SelectSeq(tags, LAMBDA t : Truthy(t))
    IN  [i \in 1..Len(kept) |-> CleanTag(kept[i])]

(***************************************************************************)
(* test.mjs: deepEqual                                                     *)
(***************************************************************************)
RECURSIVE deepEqual(_, _)
RECURSIVE deepEqualKeysOfA(_, _, _)
RECURSIVE deepEqualNextKey(_, _, _, _)

\* The loop `for (let key in a)` of deepEqual from a's i-th key on: "true"
\* when it runs to its end, "false" when it returns false, "throw" when
\* b.hasOwnProperty is a TypeError (b is undefined)
deepEqualKeysOfA(a, b, i) ==
    IF i > Len(Keys(a)) THEN "true"
    ELSE IF ~CanHaveProps(b) THEN "throw"
    ELSE IF ~HasOwn(b, Keys(a)[i]) THEN "false"
    ELSE deepEqualNextKey(a, b, i, deepEqual(Get(a, Keys(a)[i]), Get(b, Keys(a)[i])))

\* ... `if (!deepEqual(a[key], b[key])) return false`, then the next key
deepEqualNextKey(a, b, i, r) ==
    IF r # "true" THEN r ELSE deepEqualKeysOfA(a, b, i + 1)

\* The loop `for (let key in b)` of deepEqual: no key of b is missing in a
deepEqualKeysOfB(a, b) ==
    \A i \in 1..Len(Keys(b)) : HasOwn(a, Keys(b)[i])

\* deepEqual once the loop over a's keys has ended with r
deepEqualAfterA(a, b, r) ==
    IF r # "true" THEN r
    ELSE IF deepEqualKeysOfB(a, b) THEN "true" ELSE "false"

\* deepEqual(a, b): "true", "false" or "throw"
deepEqual(a, b) ==
    IF /\ (TypeOf(a) = "object" /\ a # Null) \/ TypeOf(a) = "function"
       /\ (TypeOf(a) = "object" /\ b # Null) \/ TypeOf(b) = "function"
    THEN IF IsArray(a) # IsArray(b) THEN "false"
         ELSE deepEqualAfterA(a, b, deepEqualKeysOfA(a, b, 1))
    ELSE IF TypeOf(a) = "string" /\ TypeOf(b) = "string"
         THEN IF a.v = b.v \/ trimInternal(a.v) = trimInternal(b.v)
              THEN "true" ELSE "false"
    ELSE IF StrictEq(a, b) THEN "true" ELSE "false"

(***************************************************************************)
(* test.mjs: sanitizeItem                                                  *)
(***************************************************************************)
skipFields ==
    {"note", "notes", "itemID", "attachments", "tags", "seeAlso",
     "itemType", "creators", "complete"}

\* `if (attachment[key]) delete attachment[key]`
deleteIfTruthy(ps, key) ==
    IF Truthy(Lookup(ps, key)) THEN DeleteKey(ps, key) ELSE ps

\* `if (attachment.document) { delete attachment.document;
\*  attachment.mimeType = 'text/html' }`
dropDocument(ps) ==
    IF Truthy(Lookup(ps, "document"))
    THEN SetKey(DeleteKey(ps, "document"), "mimeType", Str("text/html"))
    ELSE ps

\* The body of `for (let attachment of item.attachments)`
sanitizeAttachment(att) ==
    IF att.k # "object" THEN att
    ELSE Obj(deleteIfTruthy(deleteIfTruthy(dropDocument(att.v), "url"), "complete"))

\* `if (item.attachments && item.attachments.length) for (...)`, for the
\* item's attachments atts
sanitizeAttachmentsOf(item, atts) ==
    IF Truthy(atts) /\ atts.k = "array" /\ Truthy(LengthOf(atts))
    THEN Obj(SetKey(item.v, "attachments",
                    Arr([i \in 1..Len(atts.v) |-> sanitizeAttachment(atts.v[i])])))
    ELSE item
sanitizeAttachments(item) ==
    sanitizeAttachmentsOf(item, Lookup(item.v, "attachments"))

\* JSON.parse(JSON.stringify(x)): a property whose value is undefined is
\* dropped, an undefined array element becomes null
RECURSIVE jsonRoundTrip(_)
jsonProperties(kept) ==
    [i \in 1..Len(kept) |-> <<kept[i][1], jsonRoundTrip(kept[i][2])>>]
jsonRoundTrip(x) ==
    CASE x.k = "object" ->
            Obj(jsonProperties(SelectSeq(x.v, LAMBDA p : p[2] # Undef)))
      [] x.k = "array" ->
            Arr([i \in 1..Len(x.v) |->
                    IF x.v[i] = Undef THEN Null ELSE jsonRoundTrip(x.v[i])])
      [] OTHER -> x

\* Variant: the generic field and its synonym exchange their values
sanitizeSubfieldSwapping(ps, typeID, field, fieldID, subfieldID) ==
    IF subfieldID # 0 /\ subfieldID # fieldID
    THEN SetKey(SetKey(ps, FieldName(subfieldID), Lookup(ps, field)),
                field, Lookup(ps, FieldName(subfieldID)))
    ELSE IF ~IsValidForType(fieldID, typeID)
    THEN DeleteKey(ps, field)
    ELSE ps

\* One turn of the loop `for (let field in item)` from `let subfieldID` on
sanitizeSubfield(ps, typeID, field, fieldID, subfieldID) ==
    IF subfieldID # 0 /\ subfieldID # fieldID
    THEN DeleteKey(SetKey(ps, FieldName(subfieldID), Lookup(ps, field)), field)
    ELSE IF ~IsValidForType(fieldID, typeID)
    THEN DeleteKey(ps, field)
    ELSE ps

\* One turn of the loop `for (let field in item)` on the properties ps
sanitizeField(ps, typeID, field) ==
    IF ~HasKey(ps, field) \/ field \in skipFields THEN ps
    ELSE IF FieldID(field) = 0 \/ ~Truthy(Lookup(ps, field))
    THEN DeleteKey(ps, field)
    ELSE sanitizeSubfield(ps, typeID, field, FieldID(field),
                          GetFieldIDFromTypeAndBase(typeID, FieldID(field)))

\* The loop over the fields the item had when the loop began (a property
\* added by the loop is not visited: it is the renamed, valid subfield)
RECURSIVE sanitizeFields(_, _, _, _)
sanitizeFields(ps, typeID, fields, i) ==
    IF i > Len(fields) THEN ps
    ELSE sanitizeFields(sanitizeField(ps, typeID, fields[i]), typeID, fields, i + 1)

\* `let typeID = Zotero.ItemTypes.getID(item.itemType)` and the field loop
sanitizeFieldsOf(item) ==
    sanitizeFields(item.v, ItemTypeID(Lookup(item.v, "itemType")), Keys(item), 1)

\* item.tags.sort(by tag): a stable insertion sort
TagLess(x, y) ==
    /\ x.k = "object" /\ y.k = "object"
    /\ TagRank(Lookup(x.v, "tag")) # 0 /\ TagRank(Lookup(y.v, "tag")) # 0
    /\ TagRank(Lookup(x.v, "tag")) < TagRank(Lookup(y.v, "tag"))
RECURSIVE insertTag(_, _)
insertTag(sorted, t) ==
    IF sorted = <<>> THEN <<t>>
    ELSE IF TagLess(t, sorted[Len(sorted)])
         THEN Append(insertTag(SubSeq(sorted, 1, Len(sorted) - 1), t),
                     sorted[Len(sorted)])
         ELSE Append(sorted, t)
RECURSIVE sortTags(_)
sortTags(tags) ==
    IF tags = <<>> THEN <<>>
    ELSE insertTag(sortTags(SubSeq(tags, 1, Len(tags) - 1)), tags[Len(tags)])

\* `if (item.tags && Array.isArray(item.tags))`: clean and sort the tags
sanitizeTagsOf(ps, tags) ==
    IF Truthy(tags) /\ IsArray(tags)
    THEN SetKey(ps, "tags", Arr(sortTags(cleanTags(tags.v))))
    ELSE ps
sanitizeTags(ps) == sanitizeTagsOf(ps, Lookup(ps, "tags"))

\* Variant: the item is not taken through JSON
sanitizeItemWithoutJSON(item) ==
    Obj(sanitizeTags(
          DeleteKey(sanitizeFieldsOf(sanitizeAttachments(item)),
                    "accessDate")))

\* sanitizeItem(item), for an item that is an object
sanitizeItem(item) ==
    Obj(sanitizeTags(
          DeleteKey(sanitizeFieldsOf(jsonRoundTrip(sanitizeAttachments(item))),
                    "accessDate")))

(***************************************************************************)
(* test.mjs: the Test class.  A Test is the record of its private fields    *)
(* _type, _defer, _input, _detectedItemType, _items; InvalidTest stands for *)
(* a constructor or setter that threw.                                      *)
(***************************************************************************)
TEST_TYPES == {"web", "import", "export", "search"}

InvalidTest ==
    [type |-> "invalid", defer |-> Undef, input |-> Undef,
     detectedItemType |-> Undef, items |-> Undef]

\* set type: the value is accepted
typeOk(type) == type.k = "string" /\ type.v \in TEST_TYPES

\* set defer: the value is accepted, and what is stored
deferOk(defer) ==
    ~Truthy(defer) \/ defer = Bool(TRUE) \/ TypeOf(defer) = "number"
deferSet(defer) == IF Truthy(defer) THEN defer ELSE Undef

\* set input: the value is accepted for a test of this type
inputOk(type, input) ==
    TypeOf(input) = (IF type = "web" \/ type = "import" THEN "string" ELSE "object")

\* set detectedItemType: the value is accepted
detectedItemTypeOk(d) ==
    ~(d # Undef /\ TypeOf(d) # "string" /\ TypeOf(d) # "boolean")

\* set items: the value is accepted, and what is stored
itemsOk(items) == ~(~IsArray(items) /\ items # Str("multiple"))
itemsSet(items) ==
    IF IsArray(items)
    THEN Arr([i \in 1..Len(items.v) |-> sanitizeItem(items.v[i])])
    ELSE items

\* _inferItemType() of a test with this _type and these _items
inferItemType(type, items) ==
    IF type # "web" THEN Bool(Truthy(LengthOf(items)))
    ELSE IF StrictEq(items, Str("multiple")) THEN Str("multiple")
    ELSE IF Truthy(LengthOf(items)) THEN Get(items.v[1], "itemType")
    ELSE Bool(FALSE)

\* Variant: detectedItemType is never serialized
toJSONWithoutDetected(t) ==
    Obj(<< <<"type", Str(t.type)>>,
           <<"defer", t.defer>>,
           <<IF t.type = "web" THEN "url" ELSE "input", t.input>>,
           <<"detectedItemType", Undef>>,
           <<"items", t.items>> >>)

\* toJSON()
toJSON(t) ==
    Obj(<< <<"type", Str(t.type)>>,
           <<"defer", t.defer>>,
           <<IF t.type = "web" THEN "url" ELSE "input", t.input>>,
           <<"detectedItemType",
             IF Truthy(t.detectedItemType)
                /\ StrictEq(t.detectedItemType, inferItemType(t.type, t.items))
             THEN Undef ELSE t.detectedItemType>>,
           <<"items", t.items>> >>)

\* The constructor from `this.detectedItemType = ...` on: the fields are
\* set, detected is testInit.detectedItemType ?? this._inferItemType()
testWith(type, defer, input, items, detected) ==
    IF ~detectedItemTypeOk(detected) THEN InvalidTest
    ELSE [type |-> type, defer |-> defer, input |-> input,
          detectedItemType |-> detected, items |-> items]

\* The constructor from `this.items = testInit.items` on, items being what
\* the setter stored
testWithItems(testInit, items) ==
    testWith(Get(testInit, "type").v,
             deferSet(Coalesce(Get(testInit, "defer"), Bool(FALSE))),
             Coalesce(Get(testInit, "input"), Get(testInit, "url")),
             items,
             Coalesce(Get(testInit, "detectedItemType"),
                      inferItemType(Get(testInit, "type").v, items)))

\* new Test(testInit) for a configuration object
NewTest(testInit) ==
    IF \/ ~typeOk(Get(testInit, "type"))
       \/ ~deferOk(Coalesce(Get(testInit, "defer"), Bool(FALSE)))
       \/ ~inputOk(Get(testInit, "type").v,
                   Coalesce(Get(testInit, "input"), Get(testInit, "url")))
       \/ ~itemsOk(Get(testInit, "items"))
    THEN InvalidTest
    ELSE testWithItems(testInit, itemsSet(Get(testInit, "items")))

\* new Test(test) for a Test instance: testInit = testInit.toJSON()
CloneTest(t) == NewTest(toJSON(t))

\* a.equals(b): "true", "false" or "throw"
equals(a, b) == deepEqual(toJSON(a), toJSON(b))

(***************************************************************************)
(* diff.mjs: diff.  The report is the sequence of its lines; a line is the  *)
(* action it starts with ("-", "+" or " "), its depth (the indent is two    *)
(* spaces per level), the key prefix and the text after it.                 *)
(***************************************************************************)
Line(action, depth, prefix, text) ==
    [action |-> action, depth |-> depth, prefix |-> prefix, text |-> text]

\* `(typeof a === 'object' && a !== null) || typeof a === 'function'`
IsComposite(a) == a.k \in {"object", "array"}

startBrace(a) == IF IsArray(a) THEN "[" ELSE "{"
endBrace(a) == IF IsArray(a) THEN "]" ELSE "}"

\* JSON.stringify(a) of a value that is no object, as concatenated into a
\* line
JSONString(a) ==
    CASE a.k = "string" -> "\"" \o a.v \o "\""
      [] a.k = "number" -> ToString(a.v)
      [] a.k = "boolean" -> IF a.v THEN "true" ELSE "false"
      [] a.k = "null" -> "null"
      [] OTHER -> "undefined"

\* `isArray ? '' : JSON.stringify(key) + ': '`
keyPrefix(a, key) == IF IsArray(a) THEN "" ELSE "\"" \o key \o "\": "

\* show(a, action, prefix, indent): every line of a, marked with action
RECURSIVE show(_, _, _, _)
RECURSIVE showKeys(_, _, _, _)
showKeys(a, action, depth, i) ==
    IF i > Len(Keys(a)) THEN <<>>
    ELSE show(Get(a, Keys(a)[i]), action, keyPrefix(a, Keys(a)[i]), depth + 1)
         \o showKeys(a, action, depth, i + 1)
show(a, action, prefix, depth) ==
    IF IsComposite(a)
    THEN IF Keys(a) # <<>>
         THEN <<Line(action, depth, prefix, startBrace(a))>>
              \o showKeys(a, action, depth, 1)
              \o <<Line(action, depth, "", endBrace(a))>>
         ELSE <<Line(action, depth, prefix, startBrace(a) \o endBrace(a))>>
    ELSE <<Line(action, depth, prefix, JSONString(a))>>

\* Variant: a changed value is reported by its added line only
compareScalarsAddedOnly(a, b, prefix, depth) ==
    IF StrictEq(a, b) THEN show(a, " ", prefix, depth)
    ELSE show(b, "+", prefix, depth)

\* compare from `if (a === b)` on
compareScalars(a, b, prefix, depth) ==
    IF StrictEq(a, b) THEN show(a, " ", prefix, depth)
    ELSE show(a, "-", prefix, depth) \o show(b, "+", prefix, depth)

\* compare(a, b, prefix, indent)
RECURSIVE compare(_, _, _, _)
RECURSIVE compareKeysOfA(_, _, _, _)
compareKeysOfA(a, b, depth, i) ==
    IF i > Len(Keys(a)) THEN <<>>
    ELSE (IF HasOwn(b, Keys(a)[i])
          THEN compare(Get(a, Keys(a)[i]), Get(b, Keys(a)[i]),
                       keyPrefix(a, Keys(a)[i]), depth + 1)
          ELSE show(Get(a, Keys(a)[i]), "-", keyPrefix(a, Keys(a)[i]), depth + 1))
         \o compareKeysOfA(a, b, depth, i + 1)
RECURSIVE compareKeysOfB(_, _, _, _)
compareKeysOfB(a, b, depth, i) ==
    IF i > Len(Keys(b)) THEN <<>>
    ELSE (IF ~HasOwn(a, Keys(b)[i])
          THEN show(Get(b, Keys(b)[i]), "+", keyPrefix(a, Keys(b)[i]), depth + 1)
          ELSE <<>>)
         \o compareKeysOfB(a, b, depth, i + 1)
compare(a, b, prefix, depth) ==
    IF IsComposite(a) /\ IsComposite(b) /\ IsArray(a) = IsArray(b)
    THEN IF Keys(a) # <<>> \/ Keys(b) # <<>>
         THEN <<Line(" ", depth, prefix, startBrace(a))>>
              \o compareKeysOfA(a, b, depth, 1)
              \o compareKeysOfB(a, b, depth, 1)
              \o <<Line(" ", depth, "", endBrace(a))>>
         ELSE <<Line(" ", depth, prefix, startBrace(a) \o endBrace(a))>>
    ELSE compareScalars(a, b, prefix, depth)

\* diff(a, b): compare(a, b) without its last newline
diff(a, b) == compare(a, b, "", 0)

\* a.diffWith(b), of test.mjs: the diff of the two Tests as JSON gives them
diffWith(a, b) == diff(jsonRoundTrip(toJSON(a)), jsonRoundTrip(toJSON(b)))

\* What an assignment to a property of a Test ends with: the Test after
\* it, and whether the setter threw
Assigned(t) == [test |-> t, threw |-> FALSE]
Rejected(t) == [test |-> t, threw |-> TRUE]

\* test.type = type
setType(t, type) ==
    IF ~typeOk(type) THEN Rejected(t)
    ELSE Assigned([t EXCEPT !.type = type.v])

\* test.defer = defer
setDefer(t, defer) ==
    IF ~deferOk(defer) THEN Rejected(t)
    ELSE Assigned([t EXCEPT !.defer = deferSet(defer)])

\* test.input = input
setInput(t, input) ==
    IF ~inputOk(t.type, input) THEN Rejected(t)
    ELSE Assigned([t EXCEPT !.input = input])

\* test.url = url
setUrl(t, url) ==
    IF t.type # "web" THEN Rejected(t)
    ELSE Assigned([t EXCEPT !.input = url])

\* test.detectedItemType = detectedItemType
setDetectedItemType(t, detectedItemType) ==
    IF ~detectedItemTypeOk(detectedItemType) THEN Rejected(t)
    ELSE Assigned([t EXCEPT !.detectedItemType = detectedItemType])

\* test.items = items
setItems(t, items) ==
    IF ~itemsOk(items) THEN Rejected(t)
    ELSE Assigned([t EXCEPT !.items = itemsSet(items)])

(***************************************************************************)
(* translatorTester.mjs: TranslatorTester.  The pure parts first.          *)
(***************************************************************************)
DEFAULT_DEFER_DELAY == 5
TEST_RUN_TIMEOUT == 15000

NoTest ==
    [type |-> "none", defer |-> Undef, input |-> Undef,
     detectedItemType |-> Undef, items |-> Undef]

\* The run result { detectedItemType, items, reason }
RunResult(d, items, reason) ==
    [detectedItemType |-> d, items |-> items, reason |-> reason]
NoResult == RunResult(Undef, Undef, Undef)

\* What run() ends with: the object it resolves with, or the error it
\* rejects with (status "thrown", reason the error's message)
Outcome(status, reason, updatedTest) ==
    [status |-> status, reason |-> reason, updatedTest |-> updatedTest]
NoOutcome == Outcome("none", Undef, NoTest)
Thrown(message) == Outcome("thrown", Str(message), NoTest)

\* String(new Error(message))
ErrorString(message) == "Error: " \o message

\* The message of the error the timer aborts the signal with
TimeoutMessage ==
    "Test timed out after " \o ToString(TEST_RUN_TIMEOUT \div 1000) \o " seconds"

\* The message of `new Error(signal.reason)`, which the abort listener hands
\* to translate.complete
AbortMessage == ErrorString(TimeoutMessage)

ReasonNoItems == "Translator did not return any items"
ReasonMultipleSelect == "Translator called selectItems multiple times"
ReasonDetectionFailed == "Detection failed"
ReasonWrongType == "Detection returned wrong item type"
ReasonDataMismatch == "Data mismatch"

\* items?.length
OptionalLength(items) == IF Nullish(items) THEN Undef ELSE LengthOf(items)

\* Variant: a second call of the select handler is tolerated
translateWebResultAllowingTwo(result, numSelectItemsCalls) ==
    IF ~Truthy(result.items) /\ Truthy(result.reason)
    THEN RunResult(result.detectedItemType, result.items, result.reason)
    ELSE IF ~Truthy(OptionalLength(result.items))
    THEN RunResult(result.detectedItemType, Null, Str(ReasonNoItems))
    ELSE IF numSelectItemsCalls > 2
    THEN RunResult(result.detectedItemType, Null, Str(ReasonMultipleSelect))
    ELSE IF numSelectItemsCalls # 0
    THEN RunResult(result.detectedItemType, Str("multiple"), Undef)
    ELSE RunResult(result.detectedItemType, result.items, Undef)

\* Variant: the records are kept when the select handler was called once
translateWebResultKeepingRecords(result, numSelectItemsCalls) ==
    IF ~Truthy(result.items) /\ Truthy(result.reason)
    THEN RunResult(result.detectedItemType, result.items, result.reason)
    ELSE IF ~Truthy(OptionalLength(result.items))
    THEN RunResult(result.detectedItemType, Null, Str(ReasonNoItems))
    ELSE IF numSelectItemsCalls > 1
    THEN RunResult(result.detectedItemType, Null, Str(ReasonMultipleSelect))
    ELSE RunResult(result.detectedItemType, result.items, Undef)

\* _translateWeb after the page is released: the run result it returns for
\* the environment's result and the number of select calls
translateWebResult(result, numSelectItemsCalls) ==
    LET detectedItemType == result.detectedItemType
        items == result.items
        reason == result.reason
    IN  IF ~Truthy(items) /\ Truthy(reason)
        THEN RunResult(detectedItemType, items, reason)
        ELSE IF ~Truthy(OptionalLength(items))
        THEN RunResult(detectedItemType, Null, Str(ReasonNoItems))
        ELSE IF numSelectItemsCalls > 1
        THEN RunResult(detectedItemType, Null, Str(ReasonMultipleSelect))
        ELSE IF numSelectItemsCalls # 0
        THEN RunResult(detectedItemType, Str("multiple"), Undef)
        ELSE RunResult(detectedItemType, items, Undef)

\* `multiple` or `single item`, as the arity failure words it
ArityWord(items) ==
    IF StrictEq(items, Str("multiple")) THEN "multiple" ELSE "single item"

\* run() from `if (!test.equals(updatedTest))` on, equal being what equals
\* returned or "throw"
classifyEquality(updatedTest, equal) ==
    IF equal = "throw" THEN Thrown("TypeError")
    ELSE IF equal # "true"
    THEN Outcome("failure", Str(ReasonDataMismatch), updatedTest)
    ELSE Outcome("success", Undef, updatedTest)

\* Variant: the arity is checked before the detected type
classifyUpdatedArityFirst(test, detectedItemType, items, updatedTest) ==
    IF /\ \/ StrictEq(test.items, Str("multiple"))
          \/ StrictEq(items, Str("multiple"))
       /\ ~StrictEq(test.items, items)
    THEN Outcome("failure",
                 Str("Expected " \o ArityWord(test.items)
                     \o ", got " \o ArityWord(items)),
                 updatedTest)
    ELSE IF ~StrictEq(test.detectedItemType, detectedItemType)
    THEN Outcome("failure", Str(ReasonWrongType), updatedTest)
    ELSE classifyEquality(updatedTest, equals(test, updatedTest))

\* run() from `if (test.detectedItemType !== detectedItemType)` on
classifyUpdated(test, detectedItemType, items, updatedTest) ==
    IF ~StrictEq(test.detectedItemType, detectedItemType)
    THEN Outcome("failure", Str(ReasonWrongType), updatedTest)
    ELSE IF /\ \/ StrictEq(test.items, Str("multiple"))
               \/ StrictEq(items, Str("multiple"))
            /\ ~StrictEq(test.items, items)
    THEN Outcome("failure",
                 Str("Expected " \o ArityWord(test.items)
                     \o ", got " \o ArityWord(items)),
                 updatedTest)
    ELSE classifyEquality(updatedTest, equals(test, updatedTest))

\* run() from `let updatedTest = new Test(test)` on, clone being the new
\* Test: the two setters, which may throw, then the checks
classifyItems(test, detectedItemType, items, clone) ==
    IF clone = InvalidTest
    THEN Thrown("Invalid test")
    ELSE IF ~detectedItemTypeOk(detectedItemType)
    THEN Thrown("detectedItemType must be a string or boolean")
    ELSE IF ~itemsOk(items)
    THEN Thrown("items must be an array or \"multiple\"")
    ELSE classifyUpdated(test, detectedItemType, items,
                         [clone EXCEPT !.detectedItemType = detectedItemType,
                                       !.items = itemsSet(items)])

\* Variant: no items is a success whenever no type was detected, whatever
\* the test expects
classifyIgnoringExpectation(test, result) ==
    IF ~Truthy(result.items)
    THEN IF ~Truthy(result.detectedItemType)
         THEN Outcome("success", Undef, NoTest)
         ELSE Outcome("failure", result.reason, NoTest)
    ELSE classifyItems(test, result.detectedItemType, result.items, CloneTest(test))

\* run() from `let { detectedItemType, items, reason } = result` on
classify(test, result) ==
    IF ~Truthy(result.items)
    THEN IF /\ ~Truthy(result.detectedItemType)
            /\ StrictEq(test.detectedItemType, Bool(FALSE))
         THEN Outcome("success", Undef, NoTest)
         ELSE Outcome("failure", result.reason, NoTest)
    ELSE classifyItems(test, result.detectedItemType, result.items, CloneTest(test))

(***************************************************************************)
(* The state.                                                              *)
(*   runs[r]  one invocation of run(test) on the tester: where it is        *)
(*            suspended (pc) and its local variables                        *)
(*   env      what the environment and the translator have seen: the page   *)
(*            handles handed out (the handle of the page fetched for run r  *)
(*            is r), how often each was passed to destroy, per run the      *)
(*            calls of its select handler, where the run was when its timer *)
(*            fired, how its detection and its extraction ended, whether a  *)
(*            collaborator threw an error of its own, what waitForLoad      *)
(*            answered and the milliseconds the run then waited             *)
(*   eqA, eqB, eqOut   two Tests and the results of comparing them: what   *)
(*            equals gave each way, the report of a.diffWith(b), and, when  *)
(*            b is the updatedTest run made of a, what run returned         *)
(*   tc       a Test object under construction and assignment: the Test,    *)
(*            the last operation on it, the value it was given, whether it  *)
(*            threw, and what toJSON and a reconstruction from it gave      *)
(*   san      a raw item, sanitizeItem of it, and sanitizeItem of that      *)
(*   df       two trees and the report diff gives for them                  *)
(*   sel      the calls of the select handler of a run: what each was given *)
(*            and returned, the timers it set and the callbacks that ran    *)
(***************************************************************************)
VARIABLES runs, env, eqA, eqB, eqOut, tc, san, df, sel

vars == <<runs, env, eqA, eqB, eqOut, tc, san, df, sel>>

\* Bounds of the model
NumRuns == 2
MaxSelect == 2

IdleRun ==
    [pc |-> "idle", test |-> NoTest, aborted |-> FALSE, listening |-> FALSE,
     stopped |-> FALSE, page |-> 0, numSelectItemsCalls |-> 0, delay |-> 0,
     result |-> NoResult, pending |-> "", collected |-> NoResult,
     via |-> "none", outcome |-> NoOutcome]

IdleEnv(ids) ==
    [fetched |-> {}, destroyed |-> [p \in ids |-> 0],
     selectCalls |-> [r \in ids |-> 0],
     firedAt |-> [r \in ids |-> "never"],
     detection |-> [r \in ids |-> "none"],
     extraction |-> [r \in ids |-> "none"],
     faults |-> [r \in ids |-> FALSE],
     loaded |-> [r \in ids |-> "none"],
     waited |-> [r \in ids |-> 0]]

NoEq == [ab |-> "none", ba |-> "none", aa |-> "none", bb |-> "none",
         report |-> <<>>, run |-> NoOutcome]

\* The Test object and what was last done with it; fresh: it is as the
\* constructor made it
Case(test, op, arg, threw, fresh, json, rebuilt) ==
    [test |-> test, op |-> op, arg |-> arg, threw |-> threw, fresh |-> fresh,
     json |-> json, rebuilt |-> rebuilt]
\* No Test object yet
NoCase == Case(NoTest, "none", Undef, FALSE, FALSE, Undef, NoTest)

NoSan == [raw |-> Undef, once |-> Undef, twice |-> Undef]

NoDiff == [a |-> Undef, b |-> Undef, path |-> <<>>, report |-> <<>>]

\* No call of the select handler yet
NoSel == [calls |-> <<>>, timers |-> <<>>, invoked |-> <<>>]

\* run(): the abort controller is made, the timer armed, and the test is
\* dispatched on its type up to the first suspension
dispatch(s, t) ==
    CASE t.type = "web" ->
            [s EXCEPT !.test = t, !.pc = "fetchPage"]
      [] t.type \in {"import", "search"} ->
            [s EXCEPT !.test = t, !.pc = "detect", !.listening = TRUE]
      [] t.type = "export" ->
            [s EXCEPT !.test = t, !.pc = "done", !.via = "dispatch",
                      !.outcome = Thrown("Export tests are not yet supported")]
      [] OTHER ->
            [s EXCEPT !.test = t, !.pc = "done", !.via = "dispatch",
                      !.outcome = Thrown("Unknown test type")]

\* run()'s catch blocks: the error e of _translateWeb or
\* _translateImportOrSearch becomes a failure
runCatch(s, e) ==
    [s EXCEPT !.pc = "done", !.via = "caught",
              !.outcome = Outcome("failure", Str(ErrorString(e)), NoTest)]

\* run() once the run result is collected
finish(s, result) ==
    [s EXCEPT !.pc = "done", !.via = "classified", !.collected = result,
              !.outcome = classify(s.test, result)]

\* _translateWeb: fetchPage has returned the page
pageFetched(s, page) ==
    [s EXCEPT !.page = page, !.numSelectItemsCalls = 0, !.pc = "waitForLoad"]

\* runTranslation is called: the HTTP environment sets the translate up and
\* adds its abort listener, then waits for detection
startTranslation(s) ==
    [s EXCEPT !.pc = "runTranslation", !.listening = TRUE]

\* Variant: the default delay whatever the defer
deferDelayDefault(defer) == DEFAULT_DEFER_DELAY

\* The seconds to wait for a test with this defer
deferDelay(defer) ==
    IF TypeOf(defer) = "number" THEN defer.v ELSE DEFAULT_DEFER_DELAY

\* _translateWeb: waitForLoad has returned assumePageIsLoaded
loadWaited(s, assumePageIsLoaded) ==
    IF ~assumePageIsLoaded /\ Truthy(s.test.defer)
    THEN [s EXCEPT !.pc = "delay", !.delay = deferDelay(s.test.defer) * 1000]
    ELSE startTranslation(s)

\* Variant: the error leaves _translateWeb without the finally block
throwInTrySkippingFinally(s, e) == runCatch(s, e)

\* An error e thrown inside the try block of _translateWeb: the finally
\* block runs before the error leaves
throwInTry(s, e) == [s EXCEPT !.pending = e, !.pc = "destroy"]

\* runTranslation has returned result: the finally block runs
translationReturned(s, result) == [s EXCEPT !.result = result, !.pc = "destroy"]

\* The finally block is through: the pending error leaves _translateWeb,
\* or its result is classified
pageDestroyed(s) ==
    IF s.pending # "" THEN runCatch(s, s.pending)
    ELSE finish(s, translateWebResult(s.result, s.numSelectItemsCalls))

\* Variant: one counter on the tester, shared by the runs in flight
selectHandlerShared(rs, r) ==
    [q \in DOMAIN rs |->
        IF rs[q].pc = "runTranslation"
        THEN [rs[q] EXCEPT !.numSelectItemsCalls = @ + 1]
        ELSE rs[q]]

\* The select handler: numSelectItemsCalls++ in the run whose handler it is
selectHandler(rs, r) ==
    [rs EXCEPT ![r].numSelectItemsCalls = @ + 1]

\* Variant: every candidate is kept
sliceItemsKeepingAll(items) == Obj([i \in 1..Len(Keys(items)) |->
                                     <<Keys(items)[i], Get(items, Keys(items)[i])>>])

\* The select handler:
\* Object.fromEntries(Object.entries(items).slice(0, 3))
sliceItems(items) ==
    Obj([i \in 1..(IF Len(Keys(items)) < 3 THEN Len(Keys(items)) ELSE 3) |->
            <<Keys(items)[i], Get(items, Keys(items)[i])>>])

\* The select handler: whether the callback is called at all
callbackUsable(callback) == Truthy(callback) /\ TypeOf(callback) = "function"

\* One call of the select handler: what it was given, what it returned and
\* the counter of the run before and after it
SelectCall(given, callback, returned, before, after) ==
    [given |-> given, callback |-> callback, returned |-> returned,
     before |-> before, after |-> after]

\* The select handler from its second statement on, in a run whose counter
\* went from before to after: kept is what it keeps of items;
\* setTimeout(() => callback(items)) sets a timer, then the handler returns
handlerReturns(sl, items, callback, kept, before, after) ==
    [sl EXCEPT !.calls = Append(@, SelectCall(items, callback, kept,
                                              before, after)),
               !.timers = IF callbackUsable(callback)
                          THEN Append(@, [call |-> Len(sl.calls) + 1,
                                          callback |-> callback,
                                          items |-> kept])
                          ELSE @]

\* The oldest timer of the select handler fires: callback(items).
\* afterReturn: the call that set the timer has returned by now
timerFired(sl) ==
    [sl EXCEPT !.timers = Tail(@),
               !.invoked = Append(@, [call |-> Head(sl.timers).call,
                                      callback |-> Head(sl.timers).callback,
                                      items |-> Head(sl.timers).items,
                                      afterReturn |-> Head(sl.timers).call
                                                      \in 1..Len(sl.calls)])]

\* The timer fires: abortController.abort(error).  The listeners added so
\* far run; each calls translate.complete(false, new Error(signal.reason)),
\* which stops a translate that is still detecting or translating
abortSignal(s) ==
    [s EXCEPT !.aborted = TRUE,
              !.stopped = s.listening
                          /\ s.pc \in {"runTranslation", "detect", "translate"}]

\* Variant: translate.translate() is called whatever _detect() returned
detectReturnedTranslating(s, detectedItemType) ==
    [s EXCEPT !.pc = "translate",
              !.result = RunResult(detectedItemType, Undef, Undef)]

\* _translateImportOrSearch: translate._detect() has returned
detectReturned(s, detectedItemType) ==
    IF ~Truthy(detectedItemType)
    THEN finish(s, RunResult(Undef, Null, Str(ReasonDetectionFailed)))
    ELSE [s EXCEPT !.pc = "translate",
                   !.result = RunResult(detectedItemType, Undef, Undef)]

\* _translateImportOrSearch: translate.translate() has returned
translateReturned(s, items) ==
    finish(s, RunResult(s.result.detectedItemType, items, Undef))

(***************************************************************************)
(* The inputs: the tests run, and what the environment and the translate   *)
(* engine answer with.                                                     *)
(***************************************************************************)
ItemA == Obj(<< <<"itemType", Str("book")>>, <<"title", Str("A")>> >>)
ItemB == Obj(<< <<"itemType", Str("journalArticle")>>, <<"title", Str("B")>> >>)

\* Items as the translate engine returns them, before sanitizeItem
RawItemA ==
    Obj(<< <<"itemType", Str("book")>>, <<"title", Str("A")>>,
           <<"accessDate", Str("2024-01-01")>>, <<"libraryCatalog", Str("x")>> >>)
RawItemB ==
    Obj(<< <<"itemType", Str("journalArticle")>>, <<"title", Str("B")>>,
           <<"bookTitle", Str("none")>> >>)

Config(type, defer, input, detectedItemType, items) ==
    Obj(<< <<"type", Str(type)>>, <<"defer", defer>>,
           <<IF type = "web" THEN "url" ELSE "input", input>>,
           <<"detectedItemType", detectedItemType>>, <<"items", items>> >>)

WebTests ==
    { NewTest(Config("web", defer, Str("http://u"), d, items)) :
        defer \in {Undef, Bool(TRUE), Num(20)},
        d \in {Undef, Bool(FALSE), Str("book")},
        items \in {Arr(<<>>), Arr(<<RawItemA>>), Str("multiple")} }

ImportTests ==
    { NewTest(Config("import", Undef, Str("data"), d, items)) :
        d \in {Undef, Bool(FALSE), Bool(TRUE)},
        items \in {Arr(<<>>), Arr(<<RawItemA>>)} }

SearchTests ==
    { NewTest(Config("search", Undef, Obj(<< <<"DOI", Str("10.1/x")>> >>),
                     Undef, Arr(<<RawItemA>>))) }

ExportTests ==
    { NewTest(Config("export", Undef, Obj(<<>>), Undef, Arr(<<>>))) }

Tests == (WebTests \cup ImportTests \cup SearchTests \cup ExportTests) \ {InvalidTest}

\* What runTranslation may resolve with
EnvResults ==
    { RunResult(d, items, reason) :
        d \in {Undef, Bool(FALSE), Str("book"), Str("multiple"), Num(7)},
        items \in {Undef, Null, Arr(<<>>), Arr(<<RawItemA>>),
                   Arr(<<RawItemA, RawItemB>>), Str("xyz")},
        reason \in {Undef, Str(ReasonDetectionFailed)} }

\* What translate._detect() and translate.translate() may resolve with
DetectResults == {Undef, Bool(FALSE), Bool(TRUE), Num(7)}
TranslateResults ==
    {Undef, Null, Arr(<<>>), Arr(<<RawItemA>>), Arr(<<RawItemA, RawItemB>>),
     Obj(<<>>)}

\* The inputs of the interleaved runs
ConcTests ==
    { NewTest(Config("web", Undef, Str("http://u"), Undef, Str("multiple"))) }
ConcEnvResults ==
    { RunResult(Str("multiple"), Arr(<<RawItemA>>), Undef) }

\* The Tests compared with equals
EqInputs ==
    {Obj(<<>>), Num(5), Str(""), Undef, Null, Arr(<<>>), Str("A"), Str(" A"),
     Obj(<< <<"k", Num(1)>> >>)}
EqTests ==
    { NewTest(Config("search", Undef, Obj(<< <<"q", x>> >>), Undef, Arr(<<>>))) :
        x \in EqInputs }
    \cup { NewTest(Config("search", Undef, Obj(<<>>), Undef, Arr(<<>>))) }
    \cup { NewTest(Config("web", Undef, Str("http://u"), Undef, items)) :
             items \in {Arr(<<RawItemA>>), Str("multiple")} }

\* Items that differ from RawItemA in a property that is undefined, in
\* white space only, and in a tag
RawItemAUndefined ==
    Obj(<< <<"itemType", Str("book")>>, <<"title", Str("A")>>,
           <<"note", Undef>>, <<"seeAlso", Arr(<<Undef>>)>> >>)
RawItemASeeAlso ==
    Obj(<< <<"itemType", Str("book")>>, <<"title", Str("A")>>,
           <<"seeAlso", Arr(<<Null>>)>> >>)
RawItemASpaced ==
    Obj(<< <<"itemType", Str("book")>>, <<"title", Str(" A")>> >>)
RawItemATagged ==
    Obj(<< <<"itemType", Str("book")>>, <<"title", Str("A")>>,
           <<"tags", Arr(<<Str("b"), Str("a")>>)>> >>)
UpdatedItems ==
    {RawItemA, RawItemAUndefined, RawItemASeeAlso, RawItemASpaced,
     RawItemATagged, RawItemB}

\* The tests run compares with what was observed, and what was observed
UpdatedTests ==
    ( { NewTest(Config("web", Undef, Str("http://u"), Undef, Arr(<<item>>))) :
          item \in UpdatedItems }
      \cup { NewTest(Config("search", Undef,
                            Obj(<< <<"DOI", Str("10.1/x")>>, <<"q", Undef>> >>),
                            Undef, Arr(<<item>>))) :
               item \in {RawItemA, RawItemAUndefined} } ) \ {InvalidTest}
UpdatedResults ==
    { RunResult(d, Arr(items), Undef) :
        d \in {Str("book"), Bool(TRUE)},
        items \in { <<item>> : item \in UpdatedItems }
                  \cup { <<RawItemA, RawItemB>> } }

\* The candidate sets a translator offers: up to five pages, in two orders
CandidateEntries ==
    <<  <<"http://a", Str("A")>>, <<"http://b", Str("B")>>,
        <<"http://c", Str("C")>>, <<"http://d", Str("D")>>,
        <<"http://e", Str("E")>> >>
Candidates ==
    { Obj(SubSeq(CandidateEntries, 1, n)) : n \in 0..5 }
    \cup { Obj([i \in 1..n |-> CandidateEntries[n + 1 - i]]) : n \in 4..5 }

\* What the translator passes as the callback
Callbacks == {Undef, Fn("callback"), Str("callback")}

\* A web test for the select handler
SelectTest == NewTest(Config("web", Undef, Str("http://u"), Undef,
                             Str("multiple")))

(***************************************************************************)
(* The actions.                                                            *)
(***************************************************************************)
EqUnchanged == UNCHANGED <<eqA, eqB, eqOut, tc, san, df, sel>>

\* run(test) is called
Run(r, tests) ==
    /\ runs[r].pc = "idle"
    /\ \E t \in tests : runs' = [runs EXCEPT ![r] = dispatch(@, t)]
    /\ UNCHANGED env
    /\ EqUnchanged

\* fetchPage resolves with a new page handle
FetchPageReturns(r) ==
    /\ runs[r].pc = "fetchPage"
    /\ runs' = [runs EXCEPT ![r] = pageFetched(@, r)]
    /\ env' = [env EXCEPT !.fetched = @ \cup {r}]
    /\ EqUnchanged

\* fetchPage rejects
FetchPageThrows(r) ==
    /\ runs[r].pc = "fetchPage"
    /\ runs' = [runs EXCEPT ![r] = runCatch(@, "fetchPage failed")]
    /\ env' = [env EXCEPT !.faults[r] = TRUE]
    /\ EqUnchanged

\* waitForLoad resolves
WaitForLoadReturns(r) ==
    /\ runs[r].pc = "waitForLoad"
    /\ \E assumePageIsLoaded \in BOOLEAN :
          /\ runs' = [runs EXCEPT ![r] = loadWaited(@, assumePageIsLoaded)]
          /\ env' = [env EXCEPT !.extraction[r] =
                                    IF runs'[r].pc = "runTranslation"
                                    THEN "running" ELSE @,
                                !.loaded[r] =
                                    IF assumePageIsLoaded THEN "true" ELSE "false"]
    /\ EqUnchanged

\* waitForLoad rejects
WaitForLoadThrows(r) ==
    /\ runs[r].pc = "waitForLoad"
    /\ runs' = [runs EXCEPT ![r] = throwInTry(@, "waitForLoad failed")]
    /\ env' = [env EXCEPT !.faults[r] = TRUE]
    /\ EqUnchanged

\* Zotero.Promise.delay resolves
DelayElapsed(r) ==
    /\ runs[r].pc = "delay"
    /\ runs' = [runs EXCEPT ![r] = startTranslation(@)]
    /\ env' = [env EXCEPT !.extraction[r] = "running",
                          !.waited[r] = runs[r].delay]
    /\ EqUnchanged

\* The translator calls the select handler of the run
SelectItems(r) ==
    /\ runs[r].pc = "runTranslation"
    /\ ~runs[r].stopped
    /\ env.selectCalls[r] < MaxSelect
    /\ runs' = selectHandler(runs, r)
    /\ env' = [env EXCEPT !.selectCalls[r] = @ + 1]
    /\ EqUnchanged

\* runTranslation resolves
RunTranslationReturns(r, results) ==
    /\ runs[r].pc = "runTranslation"
    /\ ~runs[r].stopped
    /\ \E result \in results :
          runs' = [runs EXCEPT ![r] = translationReturned(@, result)]
    /\ env' = [env EXCEPT !.extraction[r] = "returned"]
    /\ EqUnchanged

\* runTranslation rejects: with the abort error when the listener stopped
\* the translate, with an error of the engine otherwise
RunTranslationThrows(r) ==
    /\ runs[r].pc = "runTranslation"
    /\ runs' = [runs EXCEPT ![r] =
                  throwInTry(@, IF @.stopped THEN AbortMessage
                                ELSE "translation failed")]
    /\ env' = [env EXCEPT !.extraction[r] = "threw",
                          !.faults[r] = @ \/ ~runs[r].stopped]
    /\ EqUnchanged

\* destroy(page) returns
DestroyReturns(r) ==
    /\ runs[r].pc = "destroy"
    /\ runs' = [runs EXCEPT ![r] = pageDestroyed(@)]
    /\ env' = [env EXCEPT !.destroyed[runs[r].page] = @ + 1]
    /\ EqUnchanged

\* destroy(page) throws: its error replaces whatever was pending
DestroyThrows(r) ==
    /\ runs[r].pc = "destroy"
    /\ runs' = [runs EXCEPT ![r] = runCatch(@, "destroy failed")]
    /\ env' = [env EXCEPT !.destroyed[runs[r].page] = @ + 1,
                          !.faults[r] = TRUE]
    /\ EqUnchanged

\* translate._detect() resolves
DetectReturns(r) ==
    /\ runs[r].pc = "detect"
    /\ ~runs[r].stopped
    /\ \E d \in DetectResults :
          /\ runs' = [runs EXCEPT ![r] = detectReturned(@, d)]
          /\ env' = [env EXCEPT !.detection[r] =
                                    IF Truthy(d) THEN "type" ELSE "no type",
                                !.extraction[r] =
                                    IF runs'[r].pc = "translate" THEN "running"
                                    ELSE @]
    /\ EqUnchanged

\* translate._detect() rejects
DetectThrows(r) ==
    /\ runs[r].pc = "detect"
    /\ runs' = [runs EXCEPT ![r] =
                  runCatch(@, IF @.stopped THEN AbortMessage ELSE "detect failed")]
    /\ env' = [env EXCEPT !.detection[r] = "threw",
                          !.faults[r] = @ \/ ~runs[r].stopped]
    /\ EqUnchanged

\* translate.translate() resolves
TranslateReturns(r) ==
    /\ runs[r].pc = "translate"
    /\ ~runs[r].stopped
    /\ \E items \in TranslateResults :
          runs' = [runs EXCEPT ![r] = translateReturned(@, items)]
    /\ env' = [env EXCEPT !.extraction[r] = "returned"]
    /\ EqUnchanged

\* translate.translate() rejects
TranslateThrows(r) ==
    /\ runs[r].pc = "translate"
    /\ runs' = [runs EXCEPT ![r] =
                  runCatch(@, IF @.stopped THEN AbortMessage
                              ELSE "translation failed")]
    /\ env' = [env EXCEPT !.extraction[r] = "threw",
                          !.faults[r] = @ \/ ~runs[r].stopped]
    /\ EqUnchanged

\* The timer of the run fires, TEST_RUN_TIMEOUT ms after run() was called
Timeout(r) ==
    /\ runs[r].pc # "idle"
    /\ ~runs[r].aborted
    /\ runs' = [runs EXCEPT ![r] = abortSignal(@)]
    /\ env' = [env EXCEPT !.firedAt[r] = runs[r].pc]
    /\ EqUnchanged

\* a.equals(b), b.equals(a), a.equals(a) and b.equals(b) are evaluated
CompareTests ==
    /\ \E a \in EqTests, b \in EqTests :
          /\ eqA' = a
          /\ eqB' = b
          /\ eqOut' = [ab |-> equals(a, b), ba |-> equals(b, a),
                       aa |-> equals(a, a), bb |-> equals(b, b),
                       report |-> diffWith(a, b), run |-> NoOutcome]
    /\ UNCHANGED <<runs, env, tc, san, df, sel>>

\* run(test) from its result on, for a result that has items: run makes
\* the updatedTest, compares it with the test and returns; the report is
\* what test.diffWith(updatedTest) then shows
CompareUpdated ==
    /\ \E test \in UpdatedTests, result \in UpdatedResults :
          /\ classify(test, result).updatedTest # NoTest
          /\ eqA' = test
          /\ eqB' = classify(test, result).updatedTest
          /\ eqOut' = [ab |-> equals(test, classify(test, result).updatedTest),
                       ba |-> equals(classify(test, result).updatedTest, test),
                       aa |-> equals(test, test),
                       bb |-> equals(classify(test, result).updatedTest,
                                     classify(test, result).updatedTest),
                       report |-> diffWith(test,
                                           classify(test, result).updatedTest),
                       run |-> classify(test, result)]
    /\ UNCHANGED <<runs, env, tc, san, df, sel>>

\* The configurations a Test is constructed from, and the values its
\* properties are assigned
CaseTypes == {Str("web"), Str("import"), Str("search"), Str("export"), Str("bogus")}
CaseDefers ==
    {Undef, Bool(TRUE), Bool(FALSE), Num(0), Str(""), Num(-5), Num(20), Str("abc")}
CaseInputs == {Str("http://u"), Obj(<< <<"DOI", Str("10.1/x")>> >>), Num(5)}
CaseDetected == {Undef, Bool(FALSE), Bool(TRUE), Str("book"), Num(7)}
CaseItems == {Arr(<<>>), Arr(<<RawItemA>>), Arr(<<RawItemB, RawItemA>>),
              Str("multiple"), Undef}
CaseConfigs ==
    { Config(type.v, defer, input, d, items) :
        type \in CaseTypes, defer \in CaseDefers, input \in CaseInputs,
        d \in CaseDetected, items \in CaseItems }

\* The state after an assignment that ended with res
AfterAssignment(op, arg, res) ==
    Case(res.test, op, arg, res.threw, FALSE, Undef, NoTest)

CaseUnchanged == UNCHANGED <<runs, env, eqA, eqB, eqOut, san, df, sel>>

\* new Test(config)
Construct ==
    /\ tc.op = "none"
    /\ \E config \in CaseConfigs :
          tc' = IF NewTest(config) = InvalidTest
                THEN Case(NoTest, "new", config, TRUE, FALSE, Undef, NoTest)
                ELSE Case(NewTest(config), "new", config, FALSE, TRUE, Undef, NoTest)
    /\ CaseUnchanged

SetType ==
    /\ tc.test # NoTest
    /\ \E type \in {Str("web"), Str("search"), Str("bogus")} :
          tc' = AfterAssignment("type", type, setType(tc.test, type))
    /\ CaseUnchanged

SetDefer ==
    /\ tc.test # NoTest
    /\ \E defer \in {Bool(FALSE), Num(-5), Str("abc")} :
          tc' = AfterAssignment("defer", defer, setDefer(tc.test, defer))
    /\ CaseUnchanged

SetInput ==
    /\ tc.test # NoTest
    /\ \E input \in CaseInputs :
          tc' = AfterAssignment("input", input, setInput(tc.test, input))
    /\ CaseUnchanged

SetUrl ==
    /\ tc.test # NoTest
    /\ \E url \in CaseInputs :
          tc' = AfterAssignment("url", url, setUrl(tc.test, url))
    /\ CaseUnchanged

SetDetectedItemType ==
    /\ tc.test # NoTest
    /\ \E d \in {Undef, Bool(FALSE), Num(7)} :
          tc' = AfterAssignment("detectedItemType", d,
                                setDetectedItemType(tc.test, d))
    /\ CaseUnchanged

SetItems ==
    /\ tc.test # NoTest
    /\ \E items \in {Arr(<<>>), Undef} :
          tc' = AfterAssignment("items", items, setItems(tc.test, items))
    /\ CaseUnchanged

\* test.toJSON(), and new Test(...) of what it returned
Serialize ==
    /\ tc.test # NoTest
    /\ tc.op # "toJSON"
    /\ tc' = [tc EXCEPT !.op = "toJSON", !.arg = Undef, !.threw = FALSE,
                        !.json = toJSON(tc.test),
                        !.rebuilt = NewTest(toJSON(tc.test))]
    /\ CaseUnchanged

\* The raw items sanitizeItem is given: each property present or not, the
\* generic field before or after its synonym
RawAttachment ==
    Obj(<< <<"title", Str("Snapshot")>>, <<"document", Obj(<<>>)>>,
           <<"url", Str("http://u")>>, <<"complete", Bool(TRUE)>> >>)
RawTypes ==
    {<<>>} \cup { << <<"itemType", Str(name)>> >> :
                     name \in {"book", "bookSection", "journalArticle", "thesis"} }
RawTitles == {<<>>, << <<"title", Str("A")>> >>, << <<"title", Str("")>> >>}
RawSynonyms ==
    {<<>>,
     << <<"publicationTitle", Str("Y")>> >>,
     << <<"bookTitle", Str("X")>> >>,
     << <<"publicationTitle", Str("Y")>>, <<"bookTitle", Str("X")>> >>,
     << <<"bookTitle", Str("X")>>, <<"publicationTitle", Str("Y")>> >>}
RawDates == {<<>>, << <<"accessDate", Str("2024-01-01")>> >>}
RawOthers ==
    {<<>>, << <<"libraryCatalog", Str("x")>>, <<"itemID", Num(7)>> >>,
     << <<"url", Undef>>, <<"note", Str("n")>> >>}
RawAttachments ==
    {<<>>, << <<"attachments", Arr(<<>>)>> >>,
     << <<"attachments", Arr(<<RawAttachment>>)>> >>}
RawTags ==
    {<<>>,
     << <<"tags", Arr(<<Str("b"), Str("a")>>)>> >>,
     << <<"tags", Arr(<<Obj(<< <<"tag", Str("c")>> >>), Str(""),
                         Obj(<< <<"tag", Str("a")>> >>)>>)>> >>}
RawItems ==
    { Obj(type \o title \o synonyms \o date \o other \o attachments \o tags) :
        type \in RawTypes, title \in RawTitles, synonyms \in RawSynonyms,
        date \in RawDates, other \in RawOthers, attachments \in RawAttachments,
        tags \in RawTags }

\* sanitizeItem(raw), and sanitizeItem of what it returned
Sanitize ==
    /\ san = NoSan
    /\ \E raw \in RawItems :
          san' = [raw |-> raw, once |-> sanitizeItem(raw),
                  twice |-> sanitizeItem(sanitizeItem(raw))]
    /\ UNCHANGED <<runs, env, eqA, eqB, eqOut, tc, df, sel>>

\* The trees diff is given, the paths to their values that are no objects,
\* and a tree with the value at one path replaced
DiffTrees ==
    { jsonRoundTrip(toJSON(NewTest(Config("web", Undef, Str("http://u"), Undef,
                                          Arr(<<RawItemA, RawItemB>>))))),
      jsonRoundTrip(toJSON(NewTest(Config("search", Bool(TRUE),
                                          Obj(<< <<"DOI", Str("10.1/x")>> >>),
                                          Bool(FALSE), Arr(<<RawItemA>>))))),
      Obj(<< <<"a", Obj(<< <<"b", Obj(<< <<"c", Num(1)>>, <<"d", Str("x")>> >>)>>,
                           <<"e", Arr(<<>>)>> >>)>>,
             <<"f", Arr(<<Num(1), Obj(<< <<"g", Null>> >>)>>)>>,
             <<"h", Obj(<<>>)>> >>),
      Arr(<<Arr(<<Num(1), Num(2)>>), Arr(<<Bool(TRUE)>>), Arr(<<>>)>>) }
DiffScalars ==
    {Num(1), Num(2), Str("x"), Str("A"), Str(" A"), Null, Bool(TRUE), Bool(FALSE)}

RECURSIVE Leaves(_)
Leaves(a) ==
    IF IsComposite(a)
    THEN UNION { { <<Keys(a)[i]>> \o p : p \in Leaves(Get(a, Keys(a)[i])) } :
                 i \in 1..Len(Keys(a)) }
    ELSE {<<>>}

RECURSIVE GetAt(_, _)
GetAt(a, path) ==
    IF path = <<>> THEN a ELSE GetAt(Get(a, path[1]), Tail(path))

RECURSIVE ReplaceAt(_, _, _)
ReplaceAt(a, path, v) ==
    IF path = <<>> THEN v
    ELSE IF IsArray(a)
    THEN Arr([i \in 1..Len(a.v) |->
                 IF IdxKey(i - 1) = path[1]
                 THEN ReplaceAt(a.v[i], Tail(path), v) ELSE a.v[i]])
    ELSE Obj(SetKey(a.v, path[1], ReplaceAt(Get(a, path[1]), Tail(path), v)))

DiffUnchanged == UNCHANGED <<runs, env, eqA, eqB, eqOut, tc, san, sel>>

\* diff(a, b) for a tree a and the tree b that differs from a in the value
\* at one path
DiffChanged ==
    /\ df = NoDiff
    /\ \E a \in DiffTrees :
          \E path \in Leaves(a), v \in DiffScalars :
              /\ v # GetAt(a, path)
              /\ df' = [a |-> a, b |-> ReplaceAt(a, path, v), path |-> path,
                        report |-> diff(a, ReplaceAt(a, path, v))]
    /\ DiffUnchanged

\* diff(a, b) for two identical trees
DiffSame ==
    /\ df = NoDiff
    /\ \E a \in DiffTrees :
          df' = [a |-> a, b |-> a, path |-> <<>>, report |-> diff(a, a)]
    /\ DiffUnchanged

(***************************************************************************)
(* The specifications.  Spec: one run of any test against any environment. *)
(* SpecConc: NumRuns runs on one tester, interleaved at their suspension    *)
(* points.  SpecEq: Test.equals on pairs of Tests.                          *)
(***************************************************************************)
\* The translator calls the select handler of the run with a candidate
\* set and, or without, a callback
SelectItemsGiven(r) ==
    /\ runs[r].pc = "runTranslation"
    /\ ~runs[r].stopped
    /\ env.selectCalls[r] < MaxSelect
    /\ runs' = selectHandler(runs, r)
    /\ env' = [env EXCEPT !.selectCalls[r] = @ + 1]
    /\ \E items \in Candidates, callback \in Callbacks :
          sel' = handlerReturns(sel, items, callback, sliceItems(items),
                                runs[r].numSelectItemsCalls,
                                runs'[r].numSelectItemsCalls)
    /\ UNCHANGED <<eqA, eqB, eqOut, tc, san, df>>

\* The event loop runs the oldest timer of the select handler
CallbackTimer ==
    /\ sel.timers # <<>>
    /\ sel' = timerFired(sel)
    /\ UNCHANGED <<runs, env, eqA, eqB, eqOut, tc, san, df>>

InitWith(ids) ==
    /\ runs = [r \in ids |-> IdleRun]
    /\ env = IdleEnv(ids)
    /\ eqA = NoTest
    /\ eqB = NoTest
    /\ eqOut = NoEq
    /\ tc = NoCase
    /\ san = NoSan
    /\ df = NoDiff
    /\ sel = NoSel

\* The run of Spec
SingleRun == {1}

Init == InitWith(SingleRun)

Next ==
    \E r \in SingleRun :
        \/ Run(r, Tests)
        \/ FetchPageReturns(r)
        \/ FetchPageThrows(r)
        \/ WaitForLoadReturns(r)
        \/ WaitForLoadThrows(r)
        \/ DelayElapsed(r)
        \/ SelectItems(r)
        \/ RunTranslationReturns(r, EnvResults)
        \/ RunTranslationThrows(r)
        \/ DestroyReturns(r)
        \/ DestroyThrows(r)
        \/ DetectReturns(r)
        \/ DetectThrows(r)
        \/ TranslateReturns(r)
        \/ TranslateThrows(r)
        \/ Timeout(r)

Spec == Init /\ [][Next]_vars

InitConc == InitWith(1..NumRuns)

NextConc ==
    \E r \in 1..NumRuns :
        \/ Run(r, ConcTests)
        \/ FetchPageReturns(r)
        \/ WaitForLoadReturns(r)
        \/ SelectItems(r)
        \/ RunTranslationReturns(r, ConcEnvResults)
        \/ RunTranslationThrows(r)
        \/ DestroyReturns(r)
        \/ Timeout(r)

SpecConc == InitConc /\ [][NextConc]_vars

InitEq == InitWith(SingleRun)

NextEq == CompareTests \/ CompareUpdated

SpecEq == InitEq /\ [][NextEq]_vars

InitTest == InitWith(SingleRun)

NextTest ==
    \/ Construct
    \/ SetType
    \/ SetDefer
    \/ SetInput
    \/ SetUrl
    \/ SetDetectedItemType
    \/ SetItems
    \/ Serialize

SpecTest == InitTest /\ [][NextTest]_vars

InitItem == InitWith(SingleRun)

NextItem == Sanitize

SpecItem == InitItem /\ [][NextItem]_vars

InitDiff == InitWith(SingleRun)

NextDiff == DiffChanged \/ DiffSame

SpecDiff == InitDiff /\ [][NextDiff]_vars

\* SpecSel: the select handler of one web run that is in runTranslation,
\* called up to MaxSelect times; the event loop runs every timer
InitSel ==
    /\ runs = [r \in SingleRun |->
                 startTranslation(pageFetched(dispatch(IdleRun, SelectTest), r))]
    /\ env = [IdleEnv(SingleRun) EXCEPT
                 !.fetched = SingleRun,
                 !.extraction = [r \in SingleRun |-> "running"],
                 !.loaded = [r \in SingleRun |-> "true"]]
    /\ eqA = NoTest
    /\ eqB = NoTest
    /\ eqOut = NoEq
    /\ tc = NoCase
    /\ san = NoSan
    /\ df = NoDiff
    /\ sel = NoSel

NextSel == (\E r \in SingleRun : SelectItemsGiven(r)) \/ CallbackTimer

SpecSel == InitSel /\ [][NextSel]_vars /\ WF_vars(CallbackTimer)

(***************************************************************************)
(* The properties.                                                         *)
(***************************************************************************)
Ids == DOMAIN runs

\* The reason of a run that failed on its timeout
TimeoutReason == Str(ErrorString(AbortMessage))

\* The extraction returned one or more records
ReturnedRecords(s) == IsArray(s.result.items) /\ Len(s.result.items.v) >= 1

\* The test expects detection to fail and no type was detected
ExpectedFailure(test, detectedItemType) ==
    ~Truthy(detectedItemType) /\ StrictEq(test.detectedItemType, Bool(FALSE))

\* C1: run never throws or rejects: whatever the test and whatever the
\* environment or the engine do, the promise of run resolves with a result
\* whose status is success or failure; an export test too.
RunNeverThrows ==
    \A r \in Ids :
        runs[r].pc = "done" => runs[r].outcome.status \in {"success", "failure"}

\* C2: every page fetchPage handed out is passed to destroy exactly once by
\* the time its run is over, whether runTranslation returned, threw, or was
\* stopped by the timeout; destroy is never called for a page that was not
\* fetched, never twice, and never while runTranslation is still running.
PageDestroyedExactlyOnce ==
    \A p \in Ids :
        /\ env.destroyed[p] <= 1
        /\ p \notin env.fetched => env.destroyed[p] = 0
        /\ env.destroyed[p] = 1 => env.extraction[p] # "running"
        /\ (p \in env.fetched /\ runs[p].pc = "done") => env.destroyed[p] = 1

AbortedRunDestroyedPage ==
    \E r \in Ids :
        /\ env.firedAt[r] = "runTranslation"
        /\ env.extraction[r] = "threw"
        /\ runs[r].pc = "done"
        /\ runs[r].outcome.reason = TimeoutReason
        /\ env.destroyed[runs[r].page] = 1

\* C3: a web run whose timer fired before its extraction had completed, and
\* in which no collaborator failed on its own, ends in failure with a reason
\* that names the timeout; it does not report success.
TimedOutWebRunFails ==
    \A r \in Ids :
        ( /\ runs[r].pc = "done"
          /\ runs[r].test.type = "web"
          /\ env.firedAt[r] \in {"fetchPage", "waitForLoad", "delay", "runTranslation"}
          /\ ~env.faults[r] )
        => /\ runs[r].outcome.status = "failure"
           /\ runs[r].outcome.reason = TimeoutReason

\* C4: when the collected run result has no items, run returns success
\* exactly if the observed detectedItemType is absent or false and the test
\* expects detectedItemType false, and otherwise failure with the reason the
\* result carries; a web test expecting detectedItemType false and no items
\* passes against an environment that detects nothing and returns nothing.
NoItemsClassification ==
    \A r \in Ids :
        LET s == runs[r]
        IN  /\ (s.via = "classified" /\ ~Truthy(s.collected.items))
               => IF /\ s.collected.detectedItemType \in {Undef, Null, Bool(FALSE)}
                     /\ s.test.detectedItemType = Bool(FALSE)
                  THEN s.outcome.status = "success"
                  ELSE /\ s.outcome.status = "failure"
                       /\ s.outcome.reason = s.collected.reason
            /\ ( /\ s.via = "classified"
                 /\ s.test.type = "web"
                 /\ s.test.detectedItemType = Bool(FALSE)
                 /\ s.test.items = Arr(<<>>)
                 /\ s.result.detectedItemType \in {Undef, Null, Bool(FALSE)}
                 /\ ~Truthy(OptionalLength(s.result.items)) )
               => s.outcome.status = "success"

ExpectedFailureSucceeds ==
    \E r \in Ids :
        /\ runs[r].via = "classified"
        /\ runs[r].test.type = "web"
        /\ runs[r].test.detectedItemType = Bool(FALSE)
        /\ runs[r].test.items = Arr(<<>>)
        /\ runs[r].result = RunResult(Undef, Arr(<<>>), Undef)
        /\ runs[r].collected.items = Null
        /\ runs[r].outcome.status = "success"

\* C5, as stated: in a web run that reached classification, whenever the
\* select handler was called more than once the run ends in failure with
\* the reason 'Translator called selectItems multiple times', whether
\* records were returned or not.
MultipleSelectAlwaysFails ==
    \A r \in Ids :
        ( /\ runs[r].via = "classified"
          /\ runs[r].test.type = "web"
          /\ env.selectCalls[r] > 1 )
        => /\ runs[r].outcome.status = "failure"
           /\ runs[r].outcome.reason = Str(ReasonMultipleSelect)

\* C5, amended: in a web run whose extraction returned one or more records,
\* whenever the select handler was called more than once the run result
\* carries no items and the reason 'Translator called selectItems multiple
\* times', and run returns failure with that reason, unless the test expects
\* detectedItemType false and no type was detected, when it returns success.
MultipleSelectWithRecords ==
    \A r \in Ids :
        LET s == runs[r]
        IN  ( /\ s.via = "classified"
              /\ s.test.type = "web"
              /\ env.selectCalls[r] > 1
              /\ ReturnedRecords(s) )
            => /\ s.collected = RunResult(s.result.detectedItemType, Null,
                                          Str(ReasonMultipleSelect))
               /\ IF ExpectedFailure(s.test, s.result.detectedItemType)
                  THEN s.outcome.status = "success"
                  ELSE /\ s.outcome.status = "failure"
                       /\ s.outcome.reason = Str(ReasonMultipleSelect)

SelectedTwiceWithRecords ==
    \E r \in Ids :
        /\ runs[r].via = "classified"
        /\ runs[r].test.type = "web"
        /\ env.selectCalls[r] > 1
        /\ runs[r].result.items = Arr(<<RawItemA, RawItemB>>)
        /\ runs[r].outcome.status = "failure"
        /\ runs[r].outcome.reason = Str(ReasonMultipleSelect)

\* C6, as stated: a web test that expects 'multiple', whose select handler
\* was called exactly once and whose extraction returned one or more
\* records, collects 'multiple' as its items and succeeds, whatever the
\* records are.
SingleSelectAlwaysSucceeds ==
    \A r \in Ids :
        LET s == runs[r]
        IN  ( /\ s.via = "classified"
              /\ s.test.type = "web"
              /\ s.test.items = Str("multiple")
              /\ env.selectCalls[r] = 1
              /\ ReturnedRecords(s) )
            => /\ s.collected.items = Str("multiple")
               /\ s.outcome.status = "success"

\* C6, amended: a web test that expects 'multiple', whose select handler
\* was called exactly once, whose extraction returned one or more records
\* and whose observed detectedItemType is the one the test expects, collects
\* 'multiple' as its items and succeeds, whatever the records are.
SingleSelectMatchingType ==
    \A r \in Ids :
        LET s == runs[r]
        IN  ( /\ s.via = "classified"
              /\ s.test.type = "web"
              /\ s.test.items = Str("multiple")
              /\ env.selectCalls[r] = 1
              /\ ReturnedRecords(s)
              /\ StrictEq(s.result.detectedItemType, s.test.detectedItemType) )
            => /\ s.collected.items = Str("multiple")
               /\ s.outcome.status = "success"

SingleSelectSucceeds ==
    \E r \in Ids :
        /\ runs[r].via = "classified"
        /\ runs[r].test.type = "web"
        /\ runs[r].test.items = Str("multiple")
        /\ env.selectCalls[r] = 1
        /\ runs[r].result.items = Arr(<<RawItemA, RawItemB>>)
        /\ runs[r].collected.items = Str("multiple")
        /\ runs[r].outcome.status = "success"

\* C7, as stated: an import run whose detection yields no item type ends in
\* failure with the reason 'Detection failed', and its extraction step is
\* never invoked.
ImportDetectionAlwaysFails ==
    \A r \in Ids :
        ( /\ runs[r].pc = "done"
          /\ runs[r].test.type = "import"
          /\ env.detection[r] = "no type" )
        => /\ env.extraction[r] = "none"
           /\ runs[r].outcome.status = "failure"
           /\ runs[r].outcome.reason = Str(ReasonDetectionFailed)

\* C7, amended: an import run whose detection yields no item type never
\* invokes its extraction step and collects the reason 'Detection failed';
\* run returns failure with that reason unless the test expects
\* detectedItemType false, when it returns success.
ImportDetectionFailed ==
    \A r \in Ids :
        LET s == runs[r]
        IN  ( /\ s.pc = "done"
              /\ s.test.type = "import"
              /\ env.detection[r] = "no type" )
            => /\ env.extraction[r] = "none"
               /\ s.collected = RunResult(Undef, Null, Str(ReasonDetectionFailed))
               /\ IF s.test.detectedItemType = Bool(FALSE)
                  THEN s.outcome.status = "success"
                  ELSE /\ s.outcome.status = "failure"
                       /\ s.outcome.reason = Str(ReasonDetectionFailed)

ImportDetectionFailedSeen ==
    \E r \in Ids :
        /\ runs[r].pc = "done"
        /\ runs[r].test.type = "import"
        /\ env.detection[r] = "no type"
        /\ env.extraction[r] = "none"
        /\ runs[r].outcome.status = "failure"
        /\ runs[r].outcome.reason = Str(ReasonDetectionFailed)

\* C8: every result of run whose status is failure carries a reason that is
\* a non-empty string.
FailureHasReason ==
    \A r \in Ids :
        (runs[r].pc = "done" /\ runs[r].outcome.status = "failure")
        => /\ TypeOf(runs[r].outcome.reason) = "string"
           /\ runs[r].outcome.reason # Str("")

\* C9: runs interleaved on one tester keep their own state: a step of one
\* run changes no other run, the select counter of a run counts the calls of
\* its own handler only, its abort signal is raised by its own timer only,
\* the page it holds is the one fetched for it, and whether it fails for
\* several select calls depends on its own calls alone.
RunsAreIsolated ==
    /\ [](\A r \in Ids :
            /\ runs[r].numSelectItemsCalls = env.selectCalls[r]
            /\ runs[r].aborted <=> env.firedAt[r] # "never"
            /\ runs[r].page # 0 => runs[r].page = r /\ r \in env.fetched
            /\ runs[r].via = "classified"
               => (runs[r].outcome.reason = Str(ReasonMultipleSelect)
                   <=> env.selectCalls[r] > 1))
    /\ [][\A r, q \in Ids :
            (r # q /\ runs'[r] # runs[r]) => runs'[q] = runs[q]]_vars

InterleavedRunsDiffer ==
    \E r, q \in Ids :
        /\ r # q
        /\ runs[r].pc = "done"
        /\ env.selectCalls[r] = 2
        /\ runs[r].outcome.reason = Str(ReasonMultipleSelect)
        /\ env.firedAt[r] = "done"
        /\ runs[q].pc = "runTranslation"
        /\ runs[q].numSelectItemsCalls = 1
        /\ ~runs[q].aborted

\* C10: Test.equals is reflexive and symmetric: a.equals(a) is true, and
\* a.equals(b) is what b.equals(a) is, for any two Tests.
EqualsReflexiveSymmetric ==
    eqOut.ab # "none"
    => /\ eqOut.aa = "true"
       /\ eqOut.bb = "true"
       /\ eqOut.ab = eqOut.ba

\* A defer the specification allows: absent, true, or a positive number
AllowedDefer(defer) ==
    \/ defer \in {Undef, Bool(TRUE)}
    \/ TypeOf(defer) = "number" /\ defer.v > 0

\* C11: after any constructor call and assignments to type, input and url,
\* the input of a Test is a string when its type is web or import and an
\* object when it is search or export; an assignment that throws leaves the
\* Test as it was.
InputClassMatchesType ==
    tc.test # NoTest => inputOk(tc.test.type, tc.test.input)

\* C12: a constructed Test has a defer that is absent, true or a positive
\* number, and the constructor throws for any other defer it is given
\* (false, 0, '', a negative number, a non-numeric string).
DeferValidated ==
    tc.op = "new"
    => /\ ~tc.threw => AllowedDefer(tc.test.defer)
       /\ ~AllowedDefer(Get(tc.arg, "defer")) => tc.threw

\* C13: for a Test as the constructor made it from a valid configuration,
\* new Test(test.toJSON()) equals the Test, field for field, and has the
\* same detectedItemType whether toJSON dropped it or not.
RoundTrip ==
    (tc.op = "toJSON" /\ tc.fresh)
    => /\ tc.rebuilt # InvalidTest
       /\ equals(tc.rebuilt, tc.test) = "true"
       /\ equals(tc.test, tc.rebuilt) = "true"
       /\ tc.rebuilt.detectedItemType = tc.test.detectedItemType
       /\ tc.rebuilt = tc.test

DroppedTypeRestored ==
    /\ tc.op = "toJSON"
    /\ tc.fresh
    /\ tc.test.detectedItemType = Str("book")
    /\ Get(tc.json, "detectedItemType") = Undef
    /\ tc.rebuilt.detectedItemType = Str("book")
    /\ Len(tc.test.items.v) = 1

\* C15: toJSON gives no detectedItemType whenever the Test's
\* detectedItemType is the value _inferItemType infers from its items, be
\* it a type name, 'multiple', true or false.
InferredTypeOmitted ==
    ( /\ tc.op = "toJSON"
      /\ StrictEq(tc.test.detectedItemType,
                  inferItemType(tc.test.type, tc.test.items)) )
    => Get(tc.json, "detectedItemType") = Undef

LinesMarked(action) ==
    { i \in 1..Len(df.report) : df.report[i].action = action }

\* The report of df without its added lines and with every mark cleared
ReportCleared ==
    [ i \in 1..Len(SelectSeq(df.report, LAMBDA l : l.action # "+")) |->
        [ SelectSeq(df.report, LAMBDA l : l.action # "+")[i]
            EXCEPT !.action = " " ] ]

\* The removed line i of the report of df is followed by the added line,
\* and both are at the path of df: at its depth, under its last key, the
\* former value removed and the new one added
ChangeAtPath(i) ==
    /\ i + 1 \in LinesMarked("+")
    /\ df.report[i].depth = Len(df.path)
    /\ df.report[i + 1].depth = Len(df.path)
    /\ df.report[i].prefix
         = keyPrefix(GetAt(df.a, SubSeq(df.path, 1, Len(df.path) - 1)),
                     df.path[Len(df.path)])
    /\ df.report[i + 1].prefix = df.report[i].prefix
    /\ df.report[i].text = JSONString(GetAt(df.a, df.path))
    /\ df.report[i + 1].text = JSONString(GetAt(df.b, df.path))

\* C16: for two trees that differ in one value at one nested path, the
\* report of diff has exactly one removed and exactly one added line, both
\* at that path, and every other line, the braces of the ancestors
\* included, is unchanged and is the line the tree has there; for two
\* identical trees no line is removed or added.
OneChangeOneLinePair ==
    df.a # Undef
    => IF df.b = df.a
       THEN LinesMarked("-") = {} /\ LinesMarked("+") = {}
       ELSE /\ Cardinality(LinesMarked("-")) = 1
            /\ Cardinality(LinesMarked("+")) = 1
            /\ \A i \in LinesMarked("-") : ChangeAtPath(i)
            /\ ReportCleared = show(df.a, " ", "", 0)

NestedChangeReported ==
    /\ df.a # Undef
    /\ Len(df.path) = 3
    /\ Cardinality(LinesMarked("-")) = 1
    /\ Cardinality(LinesMarked("+")) = 1
    /\ Cardinality(LinesMarked(" ")) >= 6

\* C17: when the timer of a web run fires while the run is suspended in
\* fetchPage, waitForLoad or the defer delay, and no collaborator fails on
\* its own, the extraction started afterwards is aborted and the run ends
\* in failure with the timed-out reason.
LateAbortObserved ==
    \A r \in Ids :
        ( /\ runs[r].pc = "done"
          /\ runs[r].test.type = "web"
          /\ env.firedAt[r] \in {"fetchPage", "waitForLoad", "delay"}
          /\ env.extraction[r] # "none"
          /\ ~env.faults[r] )
        => /\ env.extraction[r] = "threw"
           /\ runs[r].outcome.status = "failure"
           /\ runs[r].outcome.reason = TimeoutReason

\* Exactly one of the expected and the observed items is 'multiple'
ArityDiffers(s) ==
    (s.test.items = Str("multiple")) # (s.collected.items = Str("multiple"))

\* The run returned this failure, with the updatedTest that carries what
\* was observed
FailedWith(s, reason) ==
    /\ s.outcome.status = "failure"
    /\ s.outcome.reason = Str(reason)
    /\ s.outcome.updatedTest.type = s.test.type
    /\ s.outcome.updatedTest.detectedItemType = s.collected.detectedItemType

GivenReasonReported ==
    \A r \in Ids :
        LET s == runs[r]
        IN  ( /\ s.via = "classified"
              /\ s.test.type = "web"
              /\ s.result.items \in {Undef, Null, Arr(<<>>)}
              /\ Truthy(s.result.reason)
              /\ ~ExpectedFailure(s.test, s.result.detectedItemType) )
            => /\ s.outcome.status = "failure"
               /\ s.outcome.reason = s.result.reason

\* The milliseconds a web run has to wait between waitForLoad and
\* runTranslation
SettleDelay(r) ==
    IF env.loaded[r] = "false" /\ runs[r].test.defer # Undef
    THEN IF TypeOf(runs[r].test.defer) = "number"
         THEN runs[r].test.defer.v * 1000
         ELSE DEFAULT_DEFER_DELAY * 1000
    ELSE 0

\* C20: in a web run runTranslation is called only after waitForLoad has
\* returned, and the run has then waited in between exactly when
\* waitForLoad returned false and the test has a defer: the defer in
\* seconds if it is a number, 5 seconds if it is true; otherwise it has not
\* waited at all.
DelayBeforeExtraction ==
    \A r \in Ids :
        /\ runs[r].pc \in {"fetchPage", "waitForLoad", "delay"}
           => env.extraction[r] = "none"
        /\ runs[r].pc = "delay"
           => env.loaded[r] = "false" /\ runs[r].delay = SettleDelay(r)
        /\ (runs[r].test.type = "web" /\ env.extraction[r] # "none")
           => /\ env.loaded[r] # "none"
              /\ env.waited[r] = SettleDelay(r)

WaitedForDefer ==
    \E r \in Ids :
        /\ env.extraction[r] = "running"
        /\ runs[r].test.defer = Num(20)
        /\ env.loaded[r] = "false"
        /\ env.waited[r] = 20000

\* The first min(3, n) of the n entries of a candidate set, in its order
FirstThree(items) ==
    Obj(SubSeq(items.v, 1, IF Len(items.v) < 3 THEN Len(items.v) ELSE 3))

\* How often the callback of call i of the select handler has run, and
\* how many timers of the call are still to fire
TimesInvoked(i) ==
    Cardinality({j \in 1..Len(sel.invoked) : sel.invoked[j].call = i})
TimersPending(i) ==
    Cardinality({j \in 1..Len(sel.timers) : sel.timers[j].call = i})

\* Every call of the select handler so far returned the first min(3, n) of
\* its n candidates and raised the counter of the run by one; its callback,
\* if it is a function, has run at most once and never more often than its
\* timer allows, and every callback that ran got the set its call returned,
\* after that call had returned
SelectCallsInOrder ==
    /\ \A r \in Ids : runs[r].numSelectItemsCalls = Len(sel.calls)
    /\ \A i \in 1..Len(sel.calls) :
          /\ sel.calls[i].returned = FirstThree(sel.calls[i].given)
          /\ sel.calls[i].after = sel.calls[i].before + 1
          /\ sel.calls[i].after = i
          /\ TimesInvoked(i) + TimersPending(i)
               = IF sel.calls[i].callback.k = "function" THEN 1 ELSE 0
    /\ \A j \in 1..Len(sel.invoked) :
          /\ sel.invoked[j].afterReturn
          /\ sel.invoked[j].call \in 1..Len(sel.calls)
          /\ sel.invoked[j].callback = sel.calls[sel.invoked[j].call].callback
          /\ sel.invoked[j].items = sel.calls[sel.invoked[j].call].returned

\* C21: every call of the select handler returns exactly the first
\* min(3, n) of the n candidates it was given, in their order, and raises
\* the selection counter of the run by exactly one; a callback that is a
\* function is called exactly once, with the set the handler returned and
\* only after the handler has returned (a timer of the call is pending
\* until then, and it does fire); anything else given as the callback is
\* never called.
SelectHandlerTruncates ==
    /\ []SelectCallsInOrder
    /\ \A i \in 1..(MaxSelect + 1) :
          (TimersPending(i) = 1) ~> (TimesInvoked(i) = 1)

TruncatedSetCalledBack ==
    /\ Len(sel.calls) = 2
    /\ Len(sel.calls[1].given.v) = 5
    /\ sel.calls[1].callback = Fn("callback")
    /\ sel.calls[2].callback = Undef
    /\ Len(sel.calls[2].given.v) = 2
    /\ Len(sel.invoked) = 1
    /\ sel.invoked[1].items =
          Obj(<< <<"http://e", Str("E")>>, <<"http://d", Str("D")>>,
                 <<"http://c", Str("C")>> >>)
    /\ runs[1].numSelectItemsCalls = 2

\* The structural and meta fields of a record
StructuralFields ==
    {"note", "notes", "itemID", "attachments", "tags", "seeAlso", "itemType",
     "creators", "complete"}

\* C22: the record sanitizeItem returns has none of the fields note,
\* notes, itemID, attachments, tags, seeAlso, itemType, creators and
\* complete, whatever the raw record had.
SkipFieldsDropped ==
    san.raw # Undef
    => \A field \in StructuralFields : ~HasKey(san.once.v, field)

\* The lines of a report that are marked removed or added
ChangedLines(report) ==
    { i \in 1..Len(report) : report[i].action \in {"-", "+"} }

\* C23: whenever run returns the failure 'Data mismatch' with an
\* updatedTest, test.diffWith(updatedTest) has at least one removed or
\* added line.
MismatchShowsInDiff ==
    ( /\ eqOut.run.status = "failure"
      /\ eqOut.run.reason = Str(ReasonDataMismatch) )
    => /\ eqOut.run.updatedTest = eqB
       /\ eqOut.ab = "false"
       /\ ChangedLines(eqOut.report) # {}

\* C23 as stated, for any two Tests: when a.diffWith(b) shows unchanged
\* lines only, a.equals(b) is true.
UnchangedDiffMeansEqual ==
    eqOut.ab # "none"
    => (ChangedLines(eqOut.report) = {} => eqOut.ab = "true")

DataMismatchHasChangedLine ==
    /\ eqOut.run.status = "failure"
    /\ eqOut.run.reason = Str(ReasonDataMismatch)
    /\ eqA.type = "search"
    /\ Get(eqA.input, "q") = Undef
    /\ HasKey(eqA.input.v, "q")
    /\ eqA.items = Arr(<<Obj(<< <<"itemType", Str("book")>>,
                                <<"title", Str("A")>>,
                                <<"seeAlso", Arr(<<Null>>)>> >>)>>)
    /\ eqB.items = Arr(<<Obj(<< <<"itemType", Str("book")>>,
                                <<"title", Str("A")>> >>)>>)
    /\ Cardinality(ChangedLines(eqOut.report)) > 0

====
